---- MODULE Spec2Model ----
(***************************************************************************)
(* Job execution engine of the investment recommendation backend           *)
(* (src/backend/main.py, src/backend/models): job records and log lines in *)
(* the database, the background run of one analysis, the registry of live  *)
(* WebSocket subscribers and the per-line broadcast tasks.                 *)
(*                                                                         *)
(* All endpoints and run_analysis are coroutines of one asyncio event      *)
(* loop.  A coroutine runs without interruption between two awaits, so     *)
(* every handler without an await is one action; run_analysis holds no     *)
(* await at all (crew.kickoff is a blocking call), so while it runs no     *)
(* other coroutine takes a step (variable cur).  Its database scopes are   *)
(* still separate commits and are separate steps of the model.             *)
(***************************************************************************)
EXTENDS Integers, Sequences, FiniteSets, TLC

\* ------------------------------------------------------------- bounds
MaxJobs == 2
MaxLines == 3
MaxConns == 2

AnalysisIds == 1..MaxJobs
WebSockets == 1..MaxConns
NoJob == 0

\* ------------------------------------------------------------- data
\* AnalysisStatus, models/analysis.py
PENDING == "pending"
RUNNING == "running"
COMPLETED == "completed"
FAILED == "failed"
AnalysisStatus == {PENDING, RUNNING, COMPLETED, FAILED}

VARIABLES
    analyses,            \* table analyses: id -> row, rows of the committed state
    log_entries,         \* table log_entries: set of rows [id, analysis_id, message]
    next_id,             \* number of job identifiers handed out (uuid4: always fresh)
    hist,                \* per job, the status values its committed row has taken
    deleted,             \* identifiers for which delete_analysis_endpoint has returned
    removed,             \* per identifier, how often it has returned deleted=true
    background,          \* scheduled background tasks: the arguments of run_analysis
    cur,                 \* the job whose run_analysis holds the event loop, or NoJob
    pc,                  \* position of that run inside run_analysis
    tickers_str,         \* argument tickers_str of that run
    result,              \* value returned by crew.kickoff
    exc,                 \* exception being handled / escaping ("" when none)
    log_buffer,          \* lines captured from sys.stdout by the current run
    sys_stdout,          \* the stream sys.stdout refers to: Console, or the
                         \* StringIO of the run of a job
    original_stdout,     \* local original_stdout of the current run
    finished,            \* jobs whose run_analysis has returned or raised
    written,             \* number of lines all pipelines have written so far
    active_connections,  \* ConnectionManager.active_connections: id -> list
    ws,                  \* per WebSocket: state ("new", "open", "closed" by the
                         \* server, "failed", "gone"), the job id it was opened for, and
                         \* whether it was attached before that job's run ended
    received,            \* per attached WebSocket: the lines delivered to the client
    tasks,               \* broadcast tasks created by asyncio.create_task, in order
    market,              \* what the market-data provider answers per ticker
    prices,              \* what it answers per instrument of the pricing detector
    download,            \* what it answers to the download of the sector funds
    tool_output          \* the tool called last, its argument, whether it raised,
                         \* and the list it has returned

vars == <<analyses, log_entries, next_id, hist, deleted, removed, background, cur, pc,
          tickers_str, result, exc, log_buffer, sys_stdout, original_stdout, finished,
          written, active_connections, ws, received, tasks, market, prices,
          download, tool_output>>

dbVars == <<analyses, log_entries, hist>>
runVars == <<cur, pc, tickers_str, result, exc, log_buffer, sys_stdout, original_stdout,
             finished, written>>
liveVars == <<active_connections, ws, received>>
toolVars == <<market, prices, download, tool_output>>

\* ------------------------------------------------------------- strings
\* A comma separated string is kept as the sequence of its comma separated
\* fields: that is what ",".join builds and what str.split(',') returns.
Strip(s) == IF s = " AAA" THEN "AAA" ELSE IF s = " " THEN "" ELSE s

Upper(s) == IF s = "aaa" THEN "AAA" ELSE IF s = "bbb" THEN "BBB" ELSE s

RECURSIVE Flatten(_)
Flatten(ss) == IF ss = <<>> THEN <<>> ELSE Head(ss) \o Flatten(Tail(ss))

\* ",".join(tickers_list): each list element is a string, itself a sequence of
\* comma separated fields (one field unless the element holds a comma)
Join(tickers_list) == Flatten(tickers_list)

\* tickers_str.split(',')
Split(str) == str

get_default_candidate_tickers ==
    << <<"GE">>, <<"ETN">>, <<"CMI">>, <<"AOS">>, <<"ABB">>, <<"SIEGY">>,
       <<"HTHIY">>, <<"NEE">>, <<"DUK">>, <<"SO">>, <<"XLI">>, <<"XLU">>,
       <<"XLE">>, <<"XLB">>, <<"NVDA">>, <<"MSFT">>, <<"AAPL">>, <<"GOOGL">>,
       <<"AMZN">>, <<"AVGO">> >>

\* ------------------------------------------------------------- rows
NoText == [kind |-> "null", has_recs |-> FALSE, recs |-> <<>>, text |-> ""]
NoRecommendation == [is_null |-> TRUE, parts |-> <<>>]

NoRow == [exists |-> FALSE, ticker |-> <<>>, status |-> "", summary |-> NoText,
          recommendation |-> NoRecommendation]

\* Analysis(ticker=..., status=...): a column left out takes its default
Unset == "unset"
Analysis(ticker, status) ==
    [exists |-> TRUE, ticker |-> ticker,
     status |-> IF status = Unset THEN PENDING ELSE status,
     summary |-> NoText, recommendation |-> NoRecommendation]


\* a scope that never commits
get_session_without_commit(ok, before, after) == before

\* a scope that keeps its writes when its body raises (no rollback)
get_session_without_rollback(ok, before, after) == after

\* get_session: the scope's writes are committed when the body and the commit
\* end normally, and rolled back when either raises
get_session(ok, before, after) == IF ok THEN after ELSE before

\* the status history of the committed rows
Observe(h, old, new) ==
    [j \in AnalysisIds |->
        IF new[j].exists /\ (~old[j].exists \/ old[j].status # new[j].status)
        THEN Append(h[j], new[j].status) ELSE h[j]]

\* ------------------------------------------------------------- reconciliation
\* What json.loads makes of the crew's output: not JSON ("text"), a JSON value
\* that is no object ("array"), or an object with or without the key
\* 'recommendations' (has_recs); recs is the list under that key.
\* An entry holds its ticker, its rating and its reason; the price and the
\* report time that run_analysis adds to it are left out.
CrewReason == "the reason the crew gave"
NeutralReason ==
    "No strong capex growth, price spike or sector rotation signals were observed for this stock."

Rec(ticker, rating) == [ticker |-> ticker, rating |-> rating, reason |-> CrewReason]

NeutralEntry(req) == [ticker |-> req, rating |-> "neutral", reason |-> NeutralReason]

RawSummary(res) == [kind |-> "raw", has_recs |-> res.has_recs, recs |-> res.recs,
                    text |-> res.kind]

\* a set of known tickers that stays empty
ExistingNone(recs) == {}

\* existing_rec_tickers: the upper-cased tickers of the entries that name one
ExistingRecTickers(recs) ==
    {Upper(recs[i].ticker) : i \in {k \in 1..Len(recs) : recs[k].ticker # ""}}

\* requested_tickers = [t.strip().upper() for t in tickers_str.split(',') if t.strip()]
RECURSIVE RequestedTickers(_)
RequestedTickers(fields) ==
    IF fields = <<>> THEN <<>>
    ELSE IF Strip(Head(fields)) # ""
         THEN <<Upper(Strip(Head(fields)))>> \o RequestedTickers(Tail(fields))
         ELSE RequestedTickers(Tail(fields))

\* the loop over requested_tickers: existing_rec_tickers is not extended by it
RECURSIVE NeutralEntries(_, _)
NeutralEntries(requested, existing) ==
    IF requested = <<>> THEN <<>>
    ELSE IF Head(requested) \notin existing
         THEN <<NeutralEntry(Head(requested))>> \o NeutralEntries(Tail(requested), existing)
         ELSE NeutralEntries(Tail(requested), existing)

\* recs = parsed.get('recommendations', []) followed by the appends
ReconciledRecs(res, str) ==
    LET recs0 == IF res.has_recs THEN res.recs ELSE <<>>
    IN  recs0 \o NeutralEntries(RequestedTickers(Split(str)),
                                ExistingRecTickers(recs0))

\* json.dumps(parsed): the appends reach parsed only through the list stored
\* under 'recommendations'; the default list of .get is not part of parsed
UpdatedSummary(res, str) ==
    [kind |-> "json", has_recs |-> res.has_recs,
     recs |-> IF res.has_recs THEN ReconciledRecs(res, str) ELSE <<>>,
     text |-> ""]

\* ", ".join(f"{r.get('ticker')}: {r.get('rating')}" for r in recs), or None
RecommendationString(recs) ==
    IF recs = <<>> THEN NoRecommendation
    ELSE [is_null |-> FALSE,
          parts |-> [i \in 1..Len(recs) |-> <<recs[i].ticker, recs[i].rating>>]]

\* The body of `if analysis:` in the completion scope of run_analysis
Completed(row, res, str) ==
    IF res.kind = "object"
    THEN [row EXCEPT !.status = COMPLETED,
                     !.summary = UpdatedSummary(res, str),
                     !.recommendation =
                         RecommendationString(ReconciledRecs(res, str))]
    ELSE [row EXCEPT !.status = COMPLETED,
                     !.summary = RawSummary(res),
                     !.recommendation = NoRecommendation]

\* The body of `if analysis:` in the exception handler of run_analysis
Failed(row, e) ==
    [row EXCEPT !.status = FAILED,
                !.summary = [kind |-> "error", has_recs |-> FALSE, recs |-> <<>>,
                             text |-> e]]

\* ------------------------------------------------------------- inputs
\* request.tickers of the create request (None or [] select the defaults); a
\* list element is written as its comma separated fields
Requests ==
    { <<>>,
      << <<"AAA">> >>,
      << <<"aaa">> >>,
      << <<"AAA">>, <<"AAA">> >>,
      << <<" AAA">>, <<"BBB">> >>,
      << <<"AAA", "BBB">> >>,
      << <<"AAA">>, <<" ">> >> }

\* outputs of the crew (the reasoning collaborator)
NoResult == [kind |-> "none", has_recs |-> FALSE, recs |-> <<>>]
TextResult == [kind |-> "text", has_recs |-> FALSE, recs |-> <<>>]
ObjectResult(recs) == [kind |-> "object", has_recs |-> TRUE, recs |-> recs]
Results ==
    { TextResult,
      [kind |-> "array", has_recs |-> FALSE, recs |-> <<>>],
      [kind |-> "object", has_recs |-> FALSE, recs |-> <<>>],
      ObjectResult(<<>>),
      ObjectResult(<<Rec("AAA", "buy")>>),
      ObjectResult(<<Rec("aaa", "buy")>>),
      ObjectResult(<<Rec("AAA", "neutral")>>),
      ObjectResult(<<Rec("", "buy")>>),
      ObjectResult(<<Rec("AAA", "buy"), Rec("AAA", "sell")>>),
      ObjectResult(<<Rec("BBB", "hold"), Rec("AAA", "buy")>>) }

\* the one request and the one output of the specifications that do not read
\* the summary
PlainRequest == << <<"AAA">> >>
PlainResult == ObjectResult(<<Rec("AAA", "buy")>>)

\* messages of the exceptions that can reach the handler of run_analysis
KickoffError == "kickoff failed"
StorageError == "storage failed"

\* the stream the process starts with
Console == 0

\* what the pipeline of the running job writes to sys.stdout: its k-th line
\* names the job and k, and grows with k; the pipeline may also write a blank
\* line, which reads EmptyLine
EmptyLine == 0
Line(j, k) == k * (MaxJobs + 1) + j
Emitter(m) == m % (MaxJobs + 1)
Lines(n) == [k \in 1..n |-> Line(cur, k)]
Buffers ==
    { Lines(n) : n \in 0..MaxLines } \cup { <<EmptyLine>> \o Lines(n) : n \in 0..MaxLines }
Written(buffer) == Len(SelectSeq(buffer, LAMBDA m : m # EmptyLine))

\* ------------------------------------------------------------- queries
\* SQLite's INTEGER PRIMARY KEY: one more than the largest id of the table
NextLogId(entries) ==
    IF entries = {} THEN 1
    ELSE 1 + CHOOSE m \in {e.id : e \in entries} : \A e \in entries : e.id <= m

LogEntry(id, analysis_id, message) ==
    [id |-> id, analysis_id |-> analysis_id, message |-> message]

\* db.add of each non-empty line of `lines` in turn, flushed in that order
RECURSIVE AddLines(_, _, _)
AddLines(entries, analysis_id, lines) ==
    IF lines = <<>> THEN entries
    ELSE IF Head(lines) = EmptyLine
         THEN AddLines(entries, analysis_id, Tail(lines))
         ELSE AddLines(entries \cup {LogEntry(NextLogId(entries), analysis_id, Head(lines))},
                       analysis_id, Tail(lines))

\* .order_by(LogEntry.id).all() of a set of rows
RECURSIVE OrderById(_)

\* rows ordered by descending id
RECURSIVE OrderByIdDesc(_)
OrderByIdDesc(entries) ==
    IF entries = {} THEN <<>>
    ELSE LET first == CHOOSE e \in entries : \A f \in entries : e.id >= f.id
         IN  <<first>> \o OrderByIdDesc(entries \ {first})

OrderById(entries) ==
    IF entries = {} THEN <<>>
    ELSE LET first == CHOOSE e \in entries : \A f \in entries : e.id <= f.id
         IN  <<first>> \o OrderById(entries \ {first})

\* db.query(LogEntry).filter_by(analysis_id=...).order_by(LogEntry.id).all(),
\* and the messages of these rows
Messages(entries, analysis_id) ==
    LET rows == OrderById({e \in entries : e.analysis_id = analysis_id})
    IN  [i \in 1..Len(rows) |-> rows[i].message]

\* GET /analyses/{id}/logs: the messages of the job's rows, ordered by id
get_logs(analysis_id) == Messages(log_entries, analysis_id)

\* GET /analyses/{id}
get_analysis(analysis_id) == analyses[analysis_id]

\* ------------------------------------------------------------- detectors
\* The signal detectors (services/capex.py, services/pricing.py,
\* services/sell.py) and the tools that wrap them (agents/crew.py) are pure
\* functions of what the market-data provider answers.  A metric is Null
\* (Python None) or a number; a ratio is kept in percent, and the provider's
\* figures are chosen so that the division is exact.
Null == [null |-> TRUE, v |-> 0]
Num(v) == [null |-> FALSE, v |-> v]

Abs(x) == IF x < 0 THEN -x ELSE x

\* None if prev == 0 else (latest - prev) / abs(prev)
Growth(latest, prev) ==
    IF prev = 0 THEN Null ELSE Num(((latest - prev) * 100) \div Abs(prev))

\* get_capex_growth of one ticker's quarterly cash flow: kind is "raises" (the
\* provider call or the frame access raises), "missing" (no 'Capital
\* Expenditures' row) or "series"; capex is the row without its missing
\* values, most recent period first, as reported (spending is negative)
NoCapex == [available |-> FALSE, latest_capex_mil |-> 0, previous_capex_mil |-> 0,
            capex_growth_pct |-> Null]

get_capex_growth(cf) ==
    IF cf.kind # "series" \/ Len(cf.capex) < 2 THEN NoCapex
    ELSE LET latest == -cf.capex[1]
             prev == -cf.capex[2]
         IN  [available |-> TRUE, latest_capex_mil |-> latest,
              previous_capex_mil |-> prev, capex_growth_pct |-> Growth(latest, prev)]

\* [t.strip() for t in tickers.split(',') if t.strip()]
RECURSIVE TickersList(_)
TickersList(fields) ==
    IF fields = <<>> THEN <<>>
    ELSE IF Strip(Head(fields)) # ""
         THEN <<Strip(Head(fields))>> \o TickersList(Tail(fields))
         ELSE TickersList(Tail(fields))

\* a flag that takes an unknown growth for a strong one
StrongByDefault(growth) == growth.null \/ growth.v >= 20

\* a flag that leaves the boundary out
StrongAbove(growth) == ~growth.null /\ growth.v > 20

\* strong = growth is not None and growth >= 0.20
Strong(growth) == ~growth.null /\ growth.v >= 20

\* the loop of capex_tool over tickers_list
RECURSIVE CapexResults(_, _)
CapexResults(cashflow, tickers_list) ==
    IF tickers_list = <<>> THEN <<>>
    ELSE LET t == Head(tickers_list)
             data == get_capex_growth(cashflow[t])
             rest == CapexResults(cashflow, Tail(tickers_list))
         IN  IF ~data.available THEN rest
             ELSE <<[ticker |-> t,
                     latest_capex_mil |-> data.latest_capex_mil,
                     previous_capex_mil |-> data.previous_capex_mil,
                     capex_growth_pct |-> data.capex_growth_pct,
                     strong_signal |-> Strong(data.capex_growth_pct)]>> \o rest

\* pricing.DEFAULT_TICKERS
DEFAULT_TICKERS ==
    <<"HG=F", "NG=F", "CL=F", "LE=F", "ZW=F", "CT=F", "HO=F", "SI=F", "PL=F", "PA=F">>

\* sequence[-k] of Python
FromEnd(sequence, k) == sequence[Len(sequence) - k + 1]

\* One turn of the loop of get_price_spikes on the price history of an
\* instrument: kind is "raises", "empty" or "data"; closes is the Close column
\* without its missing values (none left: iloc[-1] raises, the turn is skipped)
PriceChange(history, window_days) ==
    LET closes == history.closes
        end_price == FromEnd(closes, 1)
        start_price == IF Len(closes) <= window_days THEN closes[1]
                       ELSE FromEnd(closes, window_days)
    IN  IF history.kind # "data" \/ closes = <<>> THEN Null
        ELSE IF start_price = 0 THEN Null
        ELSE Num(((end_price - start_price) * 100) \div start_price)

RECURSIVE get_price_spikes(_, _, _, _)
get_price_spikes(table, tickers, window_days, threshold_pct) ==
    IF tickers = <<>> THEN <<>>
    ELSE LET pct_change == PriceChange(table[Head(tickers)], window_days)
             rest == get_price_spikes(table, Tail(tickers), window_days, threshold_pct)
         IN  IF ~pct_change.null /\ pct_change.v >= threshold_pct
             THEN <<[ticker |-> Head(tickers), price_change_pct |-> pct_change]>> \o rest
             ELSE rest

\* a flag with a threshold above that of the list
SpikeAbove(change) == ~change.null /\ change.v > 5

\* r['spike'] = change is not None and change >= 0.05
Spike(change) == ~change.null /\ change.v >= 5

\* pricing_tool: get_price_spikes() with its defaults, and the flag
PricingResults(table) ==
    LET results == get_price_spikes(table, DEFAULT_TICKERS, 30, 5)
    IN  [i \in 1..Len(results) |->
            [ticker |-> results[i].ticker,
             price_change_pct |-> results[i].price_change_pct,
             spike |-> Spike(results[i].price_change_pct)]]

\* get_fundamental_peak_signal of one ticker: st is the quarterly income
\* statement and balance sheet (kind "raises", "missing" when a required row is
\* absent, or "series": the three rows without their missing values, most
\* recent period first), cf the quarterly cash flow read by get_capex_growth
NoFundamental ==
    [available |-> FALSE, latest_revenue |-> 0, previous_revenue |-> 0,
     revenue_growth_pct |-> Null, latest_inventory |-> 0, previous_inventory |-> 0,
     inventory_growth_pct |-> Null, latest_receivables |-> 0,
     previous_receivables |-> 0, receivables_growth_pct |-> Null,
     capex_growth_pct |-> Null, capex_peak |-> FALSE, fundamental_signal |-> FALSE]

get_fundamental_peak_signal(st, cf) ==
    IF \/ st.kind # "series"
       \/ Len(st.revenue) < 2 \/ Len(st.inventory) < 2 \/ Len(st.receivables) < 2
    THEN NoFundamental
    ELSE LET rev_growth == Growth(st.revenue[1], st.revenue[2])
             inv_growth == Growth(st.inventory[1], st.inventory[2])
             ar_growth == Growth(st.receivables[1], st.receivables[2])
             outpaced == /\ ~rev_growth.null /\ ~inv_growth.null /\ ~ar_growth.null
                         /\ inv_growth.v - rev_growth.v >= 20
                         /\ ar_growth.v < rev_growth.v
             capex_data == get_capex_growth(cf)
             capex_growth_pct == IF capex_data.available
                                 THEN capex_data.capex_growth_pct ELSE Null
             capex_peak == ~capex_growth_pct.null /\ capex_growth_pct.v < 0
         IN  [available |-> TRUE,
              latest_revenue |-> st.revenue[1], previous_revenue |-> st.revenue[2],
              revenue_growth_pct |-> rev_growth,
              latest_inventory |-> st.inventory[1],
              previous_inventory |-> st.inventory[2],
              inventory_growth_pct |-> inv_growth,
              latest_receivables |-> st.receivables[1],
              previous_receivables |-> st.receivables[2],
              receivables_growth_pct |-> ar_growth,
              capex_growth_pct |-> capex_growth_pct,
              capex_peak |-> capex_peak,
              fundamental_signal |-> outpaced \/ capex_peak]

\* get_technical_exhaustion_signal of one ticker: h is the 400 day price
\* history (kind "raises", "empty" or "data") with what pandas computes from
\* its closes: their number, the 200 day mean, the last close, the largest of
\* the last 30 closes, the last RSI and the largest of the 29 RSI values
\* before it (Null where pandas yields NaN)
NoTechnical ==
    [available |-> FALSE, current_price |-> 0, sma200 |-> 0, extension_pct |-> Null,
     current_rsi |-> Null, prior_window_rsi_max |-> Null, new_high |-> FALSE,
     rsi_divergence |-> FALSE, overextended |-> FALSE, technical_signal |-> FALSE]

get_technical_exhaustion_signal(h) ==
    IF h.kind # "data" \/ h.closes < 200 THEN NoTechnical
    ELSE LET extension_pct ==
                 IF h.sma200 # 0
                 THEN Num(((h.current_price - h.sma200) * 100) \div h.sma200)
                 ELSE Null
             windowed == h.closes >= 30
             new_high == windowed /\ h.current_price >= h.recent_max
             rsi_divergence == /\ windowed
                               /\ ~h.current_rsi.null
                               /\ ~h.prior_rsi_max.null
                               /\ h.current_price >= h.recent_max
                               /\ h.current_rsi.v < h.prior_rsi_max.v
             overextended == ~extension_pct.null /\ extension_pct.v >= 80
         IN  [available |-> TRUE, current_price |-> h.current_price,
              sma200 |-> h.sma200, extension_pct |-> extension_pct,
              current_rsi |-> h.current_rsi,
              prior_window_rsi_max |-> IF windowed THEN h.prior_rsi_max ELSE Null,
              new_high |-> new_high, rsi_divergence |-> rsi_divergence,
              overextended |-> overextended,
              technical_signal |-> overextended \/ rsi_divergence]

\* the sum of the volumes of a sequence of sessions
RECURSIVE SumVolume(_)
SumVolume(sessions) ==
    IF sessions = <<>> THEN 0 ELSE Head(sessions).volume + SumVolume(Tail(sessions))

\* the last k elements of a sequence
LastK(sequence, k) == SubSeq(sequence, Len(sequence) - k + 1, Len(sequence))

\* the larger of two numbers
Max(a, b) == IF a < b THEN b ELSE a

Min(a, b) == IF a < b THEN a ELSE b

\* get_distribution_exit_signal of one ticker: h is the 90 day history (kind
\* "raises", "empty" or "data"), a sequence of sessions [close, volume], oldest
\* first.  The average volume is that of the last 60 sessions, or of all when
\* there are fewer; volume > average is compared without dividing.
NoDistribution ==
    [available |-> FALSE, distribution_days_count |-> 0, avg_volume_60 |-> 0,
     distribution_signal |-> FALSE]

get_distribution_exit_signal(h) ==
    IF h.kind # "data" \/ h.sessions = <<>> THEN NoDistribution
    ELSE LET sessions == h.sessions
             averaged == IF Len(sessions) < 60 THEN sessions ELSE LastK(sessions, 60)
             total == SumVolume(averaged)
             days == {i \in 1..(Min(21, Len(sessions)) - 1) :
                         /\ FromEnd(sessions, i).close < FromEnd(sessions, i + 1).close
                         /\ FromEnd(sessions, i).volume > FromEnd(sessions, i + 1).volume
                         /\ FromEnd(sessions, i).volume * Len(averaged) > total}
             distribution_count == Cardinality(days)
         IN  [available |-> TRUE, distribution_days_count |-> distribution_count,
              avg_volume_60 |-> total \div Len(averaged),
              distribution_signal |-> distribution_count >= 4]

\* a test that takes a missing sub-signal for one that is there
TruthyAlways(detected) == TRUE

\* `if fundamental:` and its like: a detector returns None or a dict that
\* holds keys, and such a dict is true
Truthy(detected) == detected.available

\* the keys result.update adds for the sub-signals that are there
FlagKeys(fundamental, technical, distribution) ==
    (IF Truthy(fundamental) THEN {"fundamental_signal"} ELSE {})
    \cup (IF Truthy(technical)
          THEN {"technical_signal", "rsi_divergence", "overextended"} ELSE {})
    \cup (IF Truthy(distribution) THEN {"distribution_signal"} ELSE {})

MetricKeys(fundamental, technical, distribution) ==
    (IF Truthy(fundamental)
     THEN {"inventory_growth_pct", "revenue_growth_pct", "receivables_growth_pct",
           "capex_growth_pct"} ELSE {})
    \cup (IF Truthy(technical) THEN {"extension_pct", "current_rsi"} ELSE {})
    \cup (IF Truthy(distribution) THEN {"distribution_days_count"} ELSE {})

\* result.get(key) read as a condition: an absent key gives None, which is false
Flag(entry_flags, key) == key \in DOMAIN entry_flags /\ entry_flags[key]

\* the entry get_sell_signals builds for a ticker that is not skipped: its
\* boolean keys (flags) and its numeric keys (metrics), and sell_signal
SellEntry(t, fundamental, technical, distribution) ==
    LET flags ==
            [k \in FlagKeys(fundamental, technical, distribution) |->
                CASE k = "fundamental_signal" -> fundamental.fundamental_signal
                  [] k = "technical_signal" -> technical.technical_signal
                  [] k = "rsi_divergence" -> technical.rsi_divergence
                  [] k = "overextended" -> technical.overextended
                  [] k = "distribution_signal" -> distribution.distribution_signal]
        metrics ==
            [k \in MetricKeys(fundamental, technical, distribution) |->
                CASE k = "inventory_growth_pct" -> fundamental.inventory_growth_pct
                  [] k = "revenue_growth_pct" -> fundamental.revenue_growth_pct
                  [] k = "receivables_growth_pct" -> fundamental.receivables_growth_pct
                  [] k = "capex_growth_pct" -> fundamental.capex_growth_pct
                  [] k = "extension_pct" -> technical.extension_pct
                  [] k = "current_rsi" -> technical.current_rsi
                  [] k = "distribution_days_count" ->
                         Num(distribution.distribution_days_count)]
    IN  [ticker |-> t, flags |-> flags, metrics |-> metrics,
         sell_signal |-> \/ Flag(flags, "fundamental_signal")
                         \/ Flag(flags, "technical_signal")
                         \/ Flag(flags, "distribution_signal")]

\* get_sell_signals: answers is what the provider answers per ticker
RECURSIVE get_sell_signals(_, _)
get_sell_signals(answers, tickers) ==
    IF tickers = <<>> THEN <<>>
    ELSE LET t == Head(tickers)
             fundamental ==
                 get_fundamental_peak_signal(answers[t].statements, answers[t].cashflow)
             technical == get_technical_exhaustion_signal(answers[t].history400)
             distribution == get_distribution_exit_signal(answers[t].history90)
             rest == get_sell_signals(answers, Tail(tickers))
         IN  IF ~fundamental.available /\ ~technical.available /\ ~distribution.available
             THEN rest
             ELSE <<SellEntry(t, fundamental, technical, distribution)>> \o rest

\* ------------------------------------------------------------- sector rotation
\* the keys of rotation.DEFAULT_SECTOR_ETFS, in the order of the dict
DEFAULT_SECTOR_ETFS ==
    <<"XLB", "XLE", "XLF", "XLI", "XLY", "XLK", "XLP", "XLV", "XLU", "XLC">>

MARKET_TICKER == "SPY"

\* a close the provider has no value for (NaN)
NaN == -1

\* data.dropna(how='any'): the rows without any missing close
DropNa(rows) == SelectSeq(rows, LAMBDA row : \A c \in DOMAIN row : row[c] # NaN)

\* the rows of returns = data.pct_change().dropna(): every row but the first,
\* named by its position in data
ReturnDays(data) == 2..Len(data)

\* (data[ticker].iloc[-1] / data[ticker].iloc[0]) - 1, in percent
TrailingReturn(data, ticker) ==
    ((data[Len(data)][ticker] - data[1][ticker]) * 100) \div data[1][ticker]

\* the fraction, in percent, of the days the market fell on which the sector
\* rose; 0.0 when the market fell on no day
UpOnDown(data, ticker) ==
    LET down_days == {k \in ReturnDays(data) :
                         data[k][MARKET_TICKER] < data[k - 1][MARKET_TICKER]}
        up == {k \in down_days : data[k][ticker] > data[k - 1][ticker]}
    IN  IF Cardinality(down_days) > 0
        THEN (Cardinality(up) * 100) \div Cardinality(down_days)
        ELSE 0

\* the loop over sector_map.items(): a sector without a column is skipped
RECURSIVE SectorResults(_, _, _)
SectorResults(data, columns, sector_map) ==
    IF sector_map = <<>> THEN <<>>
    ELSE LET ticker == Head(sector_map)
             rest == SectorResults(data, columns, Tail(sector_map))
         IN  IF ticker \notin columns THEN rest
             ELSE <<[ticker |-> ticker,
                     trailing_return |-> TrailingReturn(data, ticker),
                     market_return |-> TrailingReturn(data, MARKET_TICKER),
                     relative_return |-> TrailingReturn(data, ticker)
                                         - TrailingReturn(data, MARKET_TICKER),
                     up_on_down_days_ratio |-> UpOnDown(data, ticker)]>> \o rest

\* a list left in the order of the loop
Unsorted(results) == results

\* results.sort(key=lambda x: x.relative_return, reverse=True): a stable sort,
\* entries of equal key keep the order of the loop
RECURSIVE SortByRelativeReturn(_)
SortByRelativeReturn(results) ==
    IF results = <<>> THEN <<>>
    ELSE LET sorted == SortByRelativeReturn(Tail(results))
             x == Head(results)
             before == {k \in 0..Len(sorted) :
                           \A i \in 1..k : sorted[i].relative_return > x.relative_return}
             at == CHOOSE k \in before : \A m \in before : m <= k
         IN  SubSeq(sorted, 1, at) \o <<x>> \o SubSeq(sorted, at + 1, Len(sorted))

\* get_sector_rotation_analysis on what yf.download answers: kind is "raises"
\* (the download raises or holds no close field: caught, the list is empty) or
\* "data" with the columns of the frame and its rows, oldest first.  The
\* returns of the market and the closes of a sector are read outside the try:
\* a frame without the market column, or with a sector column and no row
\* left, raises.
get_sector_rotation_analysis(raw) ==
    IF raw.kind # "data" THEN [raised |-> FALSE, results |-> <<>>]
    ELSE LET data == DropNa(raw.rows)
             present == SelectSeq(DEFAULT_SECTOR_ETFS, LAMBDA t : t \in raw.columns)
         IN  IF MARKET_TICKER \notin raw.columns THEN [raised |-> TRUE, results |-> <<>>]
             ELSE IF present = <<>> THEN [raised |-> FALSE, results |-> <<>>]
             ELSE IF data = <<>> THEN [raised |-> TRUE, results |-> <<>>]
             ELSE [raised |-> FALSE,
                   results |-> SortByRelativeReturn(
                                   SectorResults(data, raw.columns, DEFAULT_SECTOR_ETFS))]

\* rotation_signal = bool(r.relative_return > 0 and r.up_on_down_days_ratio >= 0.4)
RotationSignal(r) == r.relative_return > 0 /\ r.up_on_down_days_ratio >= 40

\* the payload of rotation_tool
RotationPayload(results) ==
    [i \in 1..Len(results) |->
        [ticker |-> results[i].ticker,
         trailing_return |-> results[i].trailing_return,
         market_return |-> results[i].market_return,
         relative_return |-> results[i].relative_return,
         up_on_down_days_ratio |-> results[i].up_on_down_days_ratio,
         rotation_signal |-> RotationSignal(results[i])]]

\* ------------------------------------------------------------- provider answers
Tickers == {"AAA", "BBB"}

Raises == "raises"

\* quarterly cash flow: growth of the spend +20%, +19%, -20%, +20% from a
\* negative spend (an inflow), previous spend zero, one period only, no row,
\* provider error
CashflowCases ==
    { [kind |-> "series", capex |-> <<-120, -100>>],
      [kind |-> "series", capex |-> <<80, 100>>],
      [kind |-> "series", capex |-> <<-119, -100>>],
      [kind |-> "series", capex |-> <<-80, -100>>],
      [kind |-> "series", capex |-> <<-100, 0>>],
      [kind |-> "series", capex |-> <<-100>>],
      [kind |-> "missing", capex |-> <<>>],
      [kind |-> Raises, capex |-> <<>>] }

Statements(kind, revenue, inventory, receivables) ==
    [kind |-> kind, revenue |-> revenue, inventory |-> inventory,
     receivables |-> receivables]

\* income statement and balance sheet: inventory outpacing revenue by 20 points
\* with slower receivables, by 19 points, every previous figure zero, one
\* period only, provider error
StatementCases ==
    { Statements("series", <<110, 100>>, <<130, 100>>, <<105, 100>>),
      Statements("series", <<110, 100>>, <<129, 100>>, <<105, 100>>),
      Statements("series", <<100, 0>>, <<100, 0>>, <<100, 0>>),
      Statements("series", <<100>>, <<100, 100>>, <<100, 100>>),
      Statements(Raises, <<>>, <<>>, <<>>) }

History400(kind, closes, sma200, current_price, recent_max, current_rsi, prior_rsi_max) ==
    [kind |-> kind, closes |-> closes, sma200 |-> sma200,
     current_price |-> current_price, recent_max |-> recent_max,
     current_rsi |-> current_rsi, prior_rsi_max |-> prior_rsi_max]

\* 400 day history: 80% above the mean, a new high on a lower RSI, neither,
\* closes that are all zero (no extension, no RSI), 199 closes, provider error
History400Cases ==
    { History400("data", 200, 100, 180, 180, Num(70), Num(60)),
      History400("data", 200, 100, 120, 120, Num(60), Num(70)),
      History400("data", 200, 100, 110, 120, Num(50), Num(70)),
      History400("data", 200, 0, 0, 0, Null, Null),
      History400("data", 199, 100, 180, 180, Num(70), Num(60)),
      History400(Raises, 0, 0, 0, 0, Null, Null) }

\* n sessions that end with d falling sessions on rising, above-average volume
Sessions(n, d) ==
    [k \in 1..n |->
        IF k > n - d THEN [close |-> 100 - (k - (n - d)), volume |-> 10 + 10 * (k - (n - d))]
        ELSE [close |-> 100, volume |-> 10]]

\* n sessions of close 100 and volume 10, but for the marked ones, named by
\* their place from the end: "distribution" falls on a volume above the prior
\* one and the average, "thin" falls on a volume above the prior one only,
\* "calm" falls on the volume of the prior one, "surge" has the volume and
\* does not fall
Marked(n, marks) ==
    [k \in 1..n |->
        LET e == n - k + 1
            kind == IF e \in DOMAIN marks THEN marks[e] ELSE ""
            next == IF e - 1 \in DOMAIN marks THEN marks[e - 1] ELSE ""
        IN  [close |-> IF kind \in {"distribution", "thin", "calm"} THEN 99 ELSE 100,
             volume |-> IF kind \in {"distribution", "surge"} THEN 100
                        ELSE IF kind = "thin" THEN 12
                        ELSE IF next = "thin" THEN 5 ELSE 10]]

Days(places, kind) == [e \in places |-> kind]

\* 90 day history: three and four distribution days in a row; four of which
\* one is the 20th session from the end; three and one more on the 21st;
\* three next to sessions that meet two conditions of the three; four in a
\* history of 30 sessions; provider error
History90Cases ==
    { [kind |-> "data", sessions |-> Sessions(61, 3)],
      [kind |-> "data", sessions |-> Sessions(61, 4)],
      [kind |-> "data", sessions |-> Marked(61, Days({1, 3, 5, 20}, "distribution"))],
      [kind |-> "data", sessions |-> Marked(61, Days({1, 3, 5, 21}, "distribution"))],
      [kind |-> "data",
       sessions |-> Marked(61, Days({1, 3, 5}, "distribution") @@ (7 :> "thin")
                               @@ (9 :> "calm") @@ (11 :> "surge"))],
      [kind |-> "data", sessions |-> Marked(30, Days({1, 3, 5, 7}, "distribution"))],
      [kind |-> Raises, sessions |-> <<>>] }

Answer(cashflow, statements, history400, history90) ==
    [cashflow |-> cashflow, statements |-> statements, history400 |-> history400,
     history90 |-> history90]

Answers ==
    { Answer(cf, st, h400, h90) :
        cf \in CashflowCases, st \in StatementCases, h400 \in History400Cases,
        h90 \in History90Cases }

\* a ticker the provider knows nothing of, one without any signal, one with all
Unknown ==
    Answer([kind |-> Raises, capex |-> <<>>], Statements(Raises, <<>>, <<>>, <<>>),
           History400(Raises, 0, 0, 0, 0, Null, Null),
           [kind |-> Raises, sessions |-> <<>>])
Quiet ==
    Answer([kind |-> "series", capex |-> <<-119, -100>>],
           Statements("series", <<110, 100>>, <<129, 100>>, <<105, 100>>),
           History400("data", 200, 100, 110, 120, Num(50), Num(70)),
           [kind |-> "data", sessions |-> Sessions(61, 3)])
Alarming ==
    Answer([kind |-> "series", capex |-> <<-80, -100>>],
           Statements("series", <<110, 100>>, <<130, 100>>, <<105, 100>>),
           History400("data", 200, 100, 180, 180, Num(70), Num(60)),
           [kind |-> "data", sessions |-> Sessions(61, 4)])

\* every answer for one ticker, next to three answers for the other
Markets ==
    { [t \in Tickers |-> IF t = "AAA" THEN a ELSE b] :
        a \in Answers, b \in {Unknown, Quiet, Alarming} }

QuietMarket == [t \in Tickers |-> Quiet]

\* n closes: start, ..., start, end
Ramp(n, start, end) == [k \in 1..n |-> IF k = n THEN end ELSE start]

\* 35 day history of an instrument: +5% and +4% over the window, +10% on a
\* short history, a start price of zero, closes all missing, no data, error
PriceCases ==
    { [kind |-> "data", closes |-> Ramp(31, 100, 105)],
      [kind |-> "data", closes |-> Ramp(31, 100, 104)],
      [kind |-> "data", closes |-> Ramp(20, 100, 110)],
      [kind |-> "data", closes |-> Ramp(31, 0, 5)],
      [kind |-> "data", closes |-> <<>>],
      [kind |-> "empty", closes |-> <<>>],
      [kind |-> Raises, closes |-> <<>>] }

Instruments == {DEFAULT_TICKERS[i] : i \in 1..Len(DEFAULT_TICKERS)}

\* every answer for the first two instruments, no data for the others
PriceTables ==
    { [i \in Instruments |->
          IF i = DEFAULT_TICKERS[1] THEN a
          ELSE IF i = DEFAULT_TICKERS[2] THEN b
          ELSE [kind |-> "empty", closes |-> <<>>]] : a \in PriceCases, b \in PriceCases }

QuietPrices == [i \in Instruments |-> [kind |-> "empty", closes |-> <<>>]]

\* the argument of capex_tool and sell_signal_tool, as its comma separated fields
ToolArguments == { <<"AAA">>, <<"AAA", "BBB">>, <<"BBB", "AAA">>, <<" AAA", " ">> }

NoOutput == [tool |-> "", tickers |-> <<>>, raised |-> FALSE, results |-> <<>>]

\* seven closes of a sector fund: from 100 it rises by one on the first ups of
\* five days and falls by one on the others, and ends at last
SectorSeries(ups, last) ==
    [k \in 1..7 |->
        IF k = 7 THEN last
        ELSE 100 + (IF k - 1 <= ups THEN k - 1 ELSE ups - (k - 1 - ups))]

\* relative strength with 40% and with 20% of the down days, no relative
\* strength with 40%, a fund that rose every day, one that fell every day
SectorCases ==
    { SectorSeries(2, 105), SectorSeries(1, 105), SectorSeries(2, 100),
      SectorSeries(5, 110), SectorSeries(0, 94) }

\* the market: five down days and back to 100, five down days and back to 96,
\* no down day
MarketCases ==
    { <<100, 99, 98, 97, 96, 95, 100>>, <<100, 99, 98, 97, 96, 95, 96>>,
      <<100, 101, 102, 103, 104, 105, 106>> }

\* the sector funds the provider answers for
Sectors == {DEFAULT_SECTOR_ETFS[i] : i \in 1..3}

Frame(columns, series) ==
    [kind |-> "data", columns |-> columns,
     rows |-> [k \in 1..7 |-> [c \in columns |-> series[c][k]]]]

\* the download: a frame of three funds and the market; the same with one
\* close of the third fund missing, with all of them missing, and without its
\* column; a provider error
Downloads ==
    LET full == Sectors \cup {MARKET_TICKER}
        third == DEFAULT_SECTOR_ETFS[3]
        Series(a, b, c, m) ==
            [t \in full |-> IF t = MARKET_TICKER THEN m
                            ELSE IF t = DEFAULT_SECTOR_ETFS[1] THEN a
                            ELSE IF t = DEFAULT_SECTOR_ETFS[2] THEN b ELSE c]
    IN  { Frame(full, Series(a, b, c, m)) :
              a \in SectorCases, b \in SectorCases, c \in SectorCases, m \in MarketCases }
        \cup { Frame(full, Series(a, b, [c EXCEPT ![4] = NaN], m)) :
                   a \in SectorCases, b \in SectorCases, c \in {SectorSeries(2, 105)},
                   m \in MarketCases }
        \cup { Frame(full, Series(a, b, [k \in 1..7 |-> NaN], m)) :
                   a \in SectorCases, b \in SectorCases, m \in MarketCases }
        \cup { Frame(full \ {third}, Series(a, b, a, m)) :
                   a \in SectorCases, b \in SectorCases, m \in MarketCases }
        \cup { [kind |-> Raises, columns |-> {}, rows |-> <<>>] }

QuietDownload == [kind |-> Raises, columns |-> {}, rows |-> <<>>]

\* ------------------------------------------------------------- initial state
NoSocket == [state |-> "new", analysis_id |-> NoJob, early |-> FALSE]

\* the application after start-up: no job, no subscriber
InitJobs ==
    /\ analyses = [j \in AnalysisIds |-> NoRow]
    /\ log_entries = {}
    /\ next_id = 0
    /\ hist = [j \in AnalysisIds |-> <<>>]
    /\ deleted = {}
    /\ removed = [j \in AnalysisIds |-> 0]
    /\ background = {}
    /\ cur = NoJob
    /\ pc = "idle"
    /\ tickers_str = <<>>
    /\ result = NoResult
    /\ exc = ""
    /\ log_buffer = <<>>
    /\ sys_stdout = Console
    /\ original_stdout = Console
    /\ finished = {}
    /\ written = 0
    /\ active_connections = << >>
    /\ ws = [w \in WebSockets |-> NoSocket]
    /\ received = [w \in WebSockets |-> <<>>]
    /\ tasks = <<>>

Init ==
    /\ InitJobs
    /\ market = QuietMarket
    /\ prices = QuietPrices
    /\ download = QuietDownload
    /\ tool_output = NoOutput

\* ------------------------------------------------------------- REST handlers
\* tickers_str of create_analysis
TickersStr(request) ==
    Join(IF request = <<>> THEN get_default_candidate_tickers ELSE request)


\* a create that leaves the status to the column default
CreatedRowByDefault(request) == Analysis(TickersStr(request), Unset)

\* background_tasks.add_task(run_analysis, analysis_id, tickers_str)
BackgroundTask(analysis_id, str) == [analysis_id |-> analysis_id, tickers_str |-> str]

\* the row create_analysis adds
CreatedRow(request) == Analysis(TickersStr(request), RUNNING)

\* POST /analyses: when the scope raises the handler ends with that exception,
\* before background_tasks.add_task
create_analysis(request, ok) ==
    /\ cur = NoJob
    /\ next_id < MaxJobs
    /\ LET analysis_id == next_id + 1
           after == [analyses EXCEPT ![analysis_id] = CreatedRow(request)]
       IN  /\ analyses' = get_session(ok, analyses, after)
           /\ hist' = Observe(hist, analyses, analyses')
           /\ IF ok
              THEN /\ next_id' = analysis_id
                   /\ background' =
                         background \cup {BackgroundTask(analysis_id, TickersStr(request))}
              ELSE UNCHANGED <<next_id, background>>
    /\ UNCHANGED <<log_entries, deleted, removed, toolVars, runVars, liveVars, tasks>>

\* the rows of log_entries left by the bulk delete of delete_analysis_endpoint
DeleteLogs(entries, analysis_id) == {e \in entries : e.analysis_id # analysis_id}

\* the row of `analyses` left by the delete of the job's row
DeleteAnalysis(rows, analysis_id) == [rows EXCEPT ![analysis_id] = NoRow]

\* a delete request that always reports a deleted record
DeletedAlways(rows, analysis_id) == TRUE

\* bool(deleted), deleted being the number of rows of `analyses` the delete matched
Deleted(rows, analysis_id) == rows[analysis_id].exists

\* DELETE /analyses/{id}: both deletes in one scope; when the scope raises the
\* handler ends with that exception and returns nothing
delete_analysis_endpoint(analysis_id, ok) ==
    /\ cur = NoJob
    /\ analysis_id <= next_id
    /\ LET before == <<analyses, log_entries>>
           after == <<DeleteAnalysis(analyses, analysis_id),
                      DeleteLogs(log_entries, analysis_id)>>
           store == get_session(ok, before, after)
       IN  /\ analyses' = store[1]
           /\ log_entries' = store[2]
    /\ deleted' = IF ok THEN deleted \cup {analysis_id} ELSE deleted
    /\ removed' = IF ok /\ Deleted(analyses, analysis_id)
                  THEN [removed EXCEPT ![analysis_id] = @ + 1] ELSE removed
    /\ UNCHANGED <<next_id, hist, background, runVars, liveVars, tasks, toolVars>>

\* ------------------------------------------------------------- run_analysis
\* the event loop starts a scheduled background task
BackgroundStart(task) ==
    /\ cur = NoJob
    /\ task \in background
    /\ background' = background \ {task}
    /\ cur' = task.analysis_id
    /\ tickers_str' = task.tickers_str
    /\ pc' = "construct"
    /\ UNCHANGED <<dbVars, next_id, deleted, removed, toolVars, result, exc, log_buffer, sys_stdout,
                   original_stdout, finished, written, liveVars, tasks>>

\* the run leaves the event loop
EndRun ==
    /\ cur' = NoJob
    /\ pc' = "idle"
    /\ tickers_str' = <<>>
    /\ result' = NoResult
    /\ exc' = ""
    /\ log_buffer' = <<>>
    /\ original_stdout' = Console
    /\ finished' = finished \cup {cur}

\* crew = InvestmentRecommendationCrew().crew(), before the try statement;
\* then original_stdout = sys.stdout and sys.stdout = log_buffer
RunConstruct(raises) ==
    /\ cur # NoJob
    /\ pc = "construct"
    /\ IF raises
       THEN EndRun /\ UNCHANGED sys_stdout
       ELSE /\ pc' = "kickoff"
            /\ original_stdout' = sys_stdout
            /\ sys_stdout' = cur
            /\ UNCHANGED <<cur, tickers_str, result, exc, log_buffer, finished>>
    /\ UNCHANGED <<dbVars, next_id, deleted, removed, toolVars, background, written, liveVars, tasks>>

\* a capture that only works while sys.stdout is unredirected
CapturedFromConsole(stream, owner, buffer) == IF stream = Console THEN buffer ELSE <<>>

\* lines written to sys.stdout reach log_buffer when sys.stdout is the StringIO
\* of the run
Captured(stream, owner, buffer) == IF stream = owner THEN buffer ELSE <<>>

\* result = crew.kickoff(...): the pipeline writes `buffer` to sys.stdout
RunKickoff(raises, res, buffer) ==
    /\ cur # NoJob
    /\ pc = "kickoff"
    /\ written + Written(buffer) <= MaxLines
    /\ written' = written + Written(buffer)
    /\ log_buffer' = Captured(sys_stdout, cur, buffer)
    /\ IF raises
       THEN /\ exc' = KickoffError
            /\ pc' = "except"
            /\ UNCHANGED result
       ELSE /\ result' = res
            /\ pc' = "persist"
            /\ UNCHANGED exc
    /\ UNCHANGED <<dbVars, next_id, deleted, removed, toolVars, background, cur, tickers_str, sys_stdout,
                   original_stdout, finished, liveVars, tasks>>

\* the completion scope: with get_session() as db: ... db.flush()
RunPersist(ok) ==
    /\ cur # NoJob
    /\ pc = "persist"
    /\ LET after == IF analyses[cur].exists
                    THEN [analyses EXCEPT ![cur] =
                             Completed(analyses[cur], result, tickers_str)]
                    ELSE analyses
       IN  analyses' = get_session(ok, analyses, after)
    /\ hist' = Observe(hist, analyses, analyses')
    /\ IF ok
       THEN pc' = "finally" /\ UNCHANGED exc
       ELSE pc' = "except" /\ exc' = StorageError
    /\ UNCHANGED <<log_entries, next_id, deleted, removed, toolVars, background, cur, tickers_str, result,
                   log_buffer, sys_stdout, original_stdout, finished, written, liveVars,
                   tasks>>

\* except Exception as exc: the scope that records the failure
RunExcept(ok) ==
    /\ cur # NoJob
    /\ pc = "except"
    /\ LET after == IF analyses[cur].exists
                    THEN [analyses EXCEPT ![cur] = Failed(analyses[cur], exc)]
                    ELSE analyses
       IN  analyses' = get_session(ok, analyses, after)
    /\ hist' = Observe(hist, analyses, analyses')
    /\ pc' = "finally"
    /\ UNCHANGED <<log_entries, next_id, deleted, removed, toolVars, background, cur, tickers_str, result,
                   exc, log_buffer, sys_stdout, original_stdout, finished, written,
                   liveVars, tasks>>

\* asyncio.create_task(manager.broadcast(analysis_id, msg)) for each non-empty line;
\* audience records the subscribers listed when the task takes its first turn
BroadcastTask(analysis_id, message) ==
    [analysis_id |-> analysis_id, message |-> message, idx |-> 0,
     started |-> FALSE, orphan |-> FALSE, audience |-> {}]

NonEmpty(m) == m # EmptyLine

CreatedTasks(analysis_id, lines) ==
    LET msgs == SelectSeq(lines, NonEmpty)
    IN  [i \in 1..Len(msgs) |-> BroadcastTask(analysis_id, msgs[i])]

\* finally: sys.stdout is restored, the captured lines are stored in one scope
\* and a broadcast task is created for each of them; the tasks run once
\* run_analysis has ended
RunFinally(ok) ==
    /\ cur # NoJob
    /\ pc = "finally"
    /\ sys_stdout' = original_stdout
    /\ log_entries' = get_session(ok, log_entries, AddLines(log_entries, cur, log_buffer))
    /\ tasks' = tasks \o CreatedTasks(cur, log_buffer)
    /\ EndRun
    /\ UNCHANGED <<analyses, hist, next_id, deleted, removed, toolVars, background, written, liveVars>>

\* ------------------------------------------------------------- live channel
\* index of the first occurrence of w in list (list.remove removes that one)
FirstIndex(list, w) == CHOOSE i \in 1..Len(list) : list[i] = w /\ \A k \in 1..(i-1) : list[k] # w

RemoveAt(list, i) == SubSeq(list, 1, i-1) \o SubSeq(list, i+1, Len(list))

\* dict without a key
DelKey(d, k) == [x \in DOMAIN d \ {k} |-> d[x]]

\* self.active_connections.setdefault(analysis_id, []).append(websocket)
Attach(conns, analysis_id, w) ==
    IF analysis_id \in DOMAIN conns
    THEN [conns EXCEPT ![analysis_id] = Append(@, w)]
    ELSE [x \in DOMAIN conns \cup {analysis_id} |->
             IF x = analysis_id THEN <<w>> ELSE conns[x]]

\* a removal that leaves the key of a list it has emptied
DetachLeavingKey(conns, analysis_id, w) ==
    IF analysis_id \in DOMAIN conns
    THEN [conns EXCEPT ![analysis_id] = RemoveAt(@, FirstIndex(@, w))]
    ELSE conns

\* ConnectionManager.disconnect
Detach(conns, analysis_id, w) ==
    IF analysis_id \in DOMAIN conns
    THEN LET rest == RemoveAt(conns[analysis_id], FirstIndex(conns[analysis_id], w))
         IN  IF rest = <<>> THEN DelKey(conns, analysis_id)
             ELSE [conns EXCEPT ![analysis_id] = rest]
    ELSE conns

\* websocket_endpoint up to its first receive_text: ConnectionManager.connect.
\* Connections are interchangeable, so they are opened in the order of their
\* numbers; a client subscribes to an identifier that create has returned.
connect(w, analysis_id) ==
    /\ cur = NoJob
    /\ ws[w].state = "new"
    /\ \A v \in 1..(w-1) : ws[v].state # "new"
    /\ analysis_id <= next_id
    /\ ws' = [ws EXCEPT ![w] = [state |-> "open", analysis_id |-> analysis_id,
                                 early |-> analysis_id \notin finished]]
    /\ active_connections' = Attach(active_connections, analysis_id, w)
    /\ UNCHANGED <<dbVars, next_id, deleted, removed, toolVars, background, runVars, received, tasks>>

\* a broadcast that is iterating the list object which disconnect empties and
\* drops from the dict keeps iterating that (now empty) object
Orphaned(ts, conns, analysis_id) ==
    [i \in 1..Len(ts) |->
        IF ts[i].analysis_id = analysis_id /\ ts[i].started
           /\ analysis_id \notin DOMAIN conns
        THEN [ts[i] EXCEPT !.orphan = TRUE] ELSE ts[i]]

\* websocket_endpoint: receive_text raises WebSocketDisconnect, the handler
\* calls manager.disconnect and the endpoint returns
disconnect(w) ==
    /\ cur = NoJob
    /\ ws[w].state \in {"open", "closed", "failed"}
    /\ active_connections' = Detach(active_connections, ws[w].analysis_id, w)
    /\ ws' = [ws EXCEPT ![w].state = "gone"]
    /\ tasks' = Orphaned(tasks, active_connections', ws[w].analysis_id)
    /\ received' = [received EXCEPT ![w] = <<>>]
    /\ UNCHANGED <<dbVars, next_id, deleted, removed, toolVars, background, runVars>>

\* the list object a broadcast task iterates
Iterated(t) ==
    IF t.orphan \/ t.analysis_id \notin DOMAIN active_connections THEN <<>>
    ELSE active_connections[t.analysis_id]

\* the event loop runs tasks first-come first-served: a task takes its first
\* step only when every task created before it has taken its own
MayStep(i) == \A k \in 1..(i-1) : tasks[k].started

\* the state of a socket after the except branch of broadcast has handled a
\* failed send: closed by websocket.close(), or unusable when close raised too
AfterFailedSend(sock, closed) ==
    [sock EXCEPT !.state = IF closed THEN "closed" ELSE "failed"]

\* the subscribers of a list
Listed(list) == {list[k] : k \in 1..Len(list)}

\* One turn of `for websocket in self.active_connections.get(analysis_id, [])`:
\* the list iterator yields the element at its index, or ends the task; the
\* send delivers the line, or raises and the socket is closed; close itself
\* returns, or raises and ends the task (it always raises on a socket that
\* was already closed).
BroadcastStep(i, send_ok, close_ok) ==
    /\ cur = NoJob
    /\ i \in 1..Len(tasks)
    /\ MayStep(i)
    /\ LET t == tasks[i]
           list == Iterated(t)
       IN  IF t.idx >= Len(list)
           THEN /\ tasks' = RemoveAt(tasks, i)
                /\ UNCHANGED <<ws, received>>
           ELSE LET w == list[t.idx + 1]
                    sent == send_ok /\ ws[w].state = "open"
                    closed == close_ok /\ ws[w].state = "open"
                IN  /\ received' = IF sent THEN [received EXCEPT ![w] = Append(@, t.message)]
                                   ELSE received
                    /\ ws' = IF sent \/ ws[w].state # "open" THEN ws
                             ELSE [ws EXCEPT ![w] = AfterFailedSend(ws[w], closed)]
                    /\ tasks' = IF sent \/ closed
                                THEN [tasks EXCEPT ![i] =
                                         [t EXCEPT !.idx = t.idx + 1,
                                                   !.started = TRUE,
                                                   !.audience = IF t.started THEN @
                                                                ELSE Listed(list)]]
                                ELSE RemoveAt(tasks, i)
    /\ UNCHANGED <<dbVars, next_id, deleted, removed, toolVars, background, runVars, active_connections>>

\* ------------------------------------------------------------- tools
\* capex_tool(tickers)
capex_tool(tickers) ==
    /\ tool_output' = [tool |-> "capex", tickers |-> tickers, raised |-> FALSE,
                       results |-> CapexResults([t \in Tickers |-> market[t].cashflow],
                                                TickersList(Split(tickers)))]
    /\ UNCHANGED <<dbVars, next_id, deleted, removed, background, runVars, liveVars, tasks,
                   market, prices, download>>

\* pricing_tool(dummy)
pricing_tool ==
    /\ tool_output' = [tool |-> "pricing", tickers |-> <<>>, raised |-> FALSE,
                       results |-> PricingResults(prices)]
    /\ UNCHANGED <<dbVars, next_id, deleted, removed, background, runVars, liveVars, tasks,
                   market, prices, download>>

\* rotation_tool(dummy): an exception of get_sector_rotation_analysis leaves
\* the tool
rotation_tool ==
    /\ LET analysis == get_sector_rotation_analysis(download)
       IN  tool_output' = [tool |-> "rotation", tickers |-> <<>>,
                           raised |-> analysis.raised,
                           results |-> RotationPayload(analysis.results)]
    /\ UNCHANGED <<dbVars, next_id, deleted, removed, background, runVars, liveVars, tasks,
                   market, prices, download>>

\* sell_signal_tool(tickers): the conversion of numpy booleans changes no value
sell_signal_tool(tickers) ==
    /\ tool_output' = [tool |-> "sell", tickers |-> tickers, raised |-> FALSE,
                       results |-> get_sell_signals(market, TickersList(Split(tickers)))]
    /\ UNCHANGED <<dbVars, next_id, deleted, removed, background, runVars, liveVars, tasks,
                   market, prices, download>>

\* ------------------------------------------------------------- specification
\* the steps of run_analysis that take no collaborator output
RunSteps ==
    \/ \E task \in background : BackgroundStart(task)
    \/ \E raises \in BOOLEAN : RunConstruct(raises)
    \/ \E ok \in BOOLEAN : RunPersist(ok)
    \/ \E ok \in BOOLEAN : RunExcept(ok)
    \/ \E ok \in BOOLEAN : RunFinally(ok)

Broadcasts ==
    \E i \in 1..MaxLines, send_ok \in BOOLEAN, close_ok \in BOOLEAN :
        BroadcastStep(i, send_ok, close_ok)

\* The complete system.
Next ==
    \/ \E request \in Requests, ok \in BOOLEAN : create_analysis(request, ok)
    \/ \E j \in AnalysisIds, ok \in BOOLEAN : delete_analysis_endpoint(j, ok)
    \/ RunSteps
    \/ \E raises \in BOOLEAN, res \in Results, buffer \in Buffers :
          RunKickoff(raises, res, buffer)
    \/ \E w \in WebSockets, j \in AnalysisIds : connect(w, j)
    \/ \E w \in WebSockets : disconnect(w)
    \/ Broadcasts

Spec == Init /\ [][Next]_vars

\* The store and the job state machine: every job of the complete system, with
\* the request and the crew's output fixed, no subscriber, and the broadcast
\* tasks left where the runs created them (no action of the live channel writes
\* a variable of the store or of a run).
NextStore ==
    \/ \E ok \in BOOLEAN : create_analysis(PlainRequest, ok)
    \/ \E j \in AnalysisIds, ok \in BOOLEAN : delete_analysis_endpoint(j, ok)
    \/ RunSteps
    \/ \E raises \in BOOLEAN, buffer \in Buffers : RunKickoff(raises, PlainResult, buffer)

SpecStore == Init /\ [][NextStore]_vars

\* Reconciliation: one job, every request and every output of the crew, no
\* captured line.
NextReconcile ==
    \/ \E request \in Requests : next_id = 0 /\ create_analysis(request, TRUE)
    \/ RunSteps
    \/ \E raises \in BOOLEAN, res \in Results : RunKickoff(raises, res, <<>>)

SpecReconcile == Init /\ [][NextReconcile]_vars

\* The live channel of one job: its subscribers and its broadcast tasks.
NextLive ==
    \/ next_id = 0 /\ create_analysis(PlainRequest, TRUE)
    \/ \E j \in AnalysisIds, ok \in BOOLEAN : delete_analysis_endpoint(j, ok)
    \/ RunSteps
    \/ \E raises \in BOOLEAN, buffer \in Buffers : RunKickoff(raises, PlainResult, buffer)
    \/ \E w \in WebSockets, j \in AnalysisIds : connect(w, j)
    \/ \E w \in WebSockets : disconnect(w)
    \/ Broadcasts

SpecLive == Init /\ [][NextLive]_vars

\* The registry of subscribers: one job whose run captures two lines, its
\* subscribers and its two broadcast tasks.
NextRegistry ==
    \/ next_id = 0 /\ create_analysis(PlainRequest, TRUE)
    \/ RunSteps
    \/ \E raises \in BOOLEAN : RunKickoff(raises, PlainResult, Lines(2))
    \/ \E w \in WebSockets, j \in AnalysisIds : connect(w, j)
    \/ \E w \in WebSockets : disconnect(w)
    \/ Broadcasts

SpecRegistry == Init /\ [][NextRegistry]_vars

\* The detectors: every answer of the provider, and the tools applied to it.
InitSignals ==
    /\ InitJobs
    /\ \/ market \in Markets /\ prices = QuietPrices /\ download = QuietDownload
       \/ market = QuietMarket /\ prices \in PriceTables /\ download = QuietDownload
       \/ market = QuietMarket /\ prices = QuietPrices /\ download \in Downloads
    /\ tool_output = NoOutput

NextSignals ==
    \/ \E tickers \in ToolArguments : capex_tool(tickers)
    \/ pricing_tool
    \/ rotation_tool
    \/ \E tickers \in ToolArguments : sell_signal_tool(tickers)

SpecSignals == InitSignals /\ [][NextSignals]_vars

\* ------------------------------------------------------------- claims
Created == 1..next_id
Terminal == {COMPLETED, FAILED}

\* s is a subsequence of t
RECURSIVE IsSubseq(_, _)
IsSubseq(s, t) ==
    IF s = <<>> THEN TRUE
    ELSE IF t = <<>> THEN FALSE
    ELSE IF Head(s) = Head(t) THEN IsSubseq(Tail(s), Tail(t))
    ELSE IsSubseq(s, Tail(t))

StrictlyIncreasing(q) == \A a, b \in 1..Len(q) : a < b => q[a] < q[b]

\* C1: the status values a job's persisted record takes over time form a
\* subsequence of [PENDING, RUNNING, COMPLETED] or of [PENDING, RUNNING,
\* FAILED], and a terminal value is preceded by RUNNING.
C1_StatusMovesForward ==
    \A j \in AnalysisIds :
        /\ \/ IsSubseq(hist[j], <<PENDING, RUNNING, COMPLETED>>)
           \/ IsSubseq(hist[j], <<PENDING, RUNNING, FAILED>>)
        /\ \A k \in 1..Len(hist[j]) :
              hist[j][k] \in Terminal => \E i \in 1..(k-1) : hist[j][i] = RUNNING

C1_Witness ==
    /\ \E j \in AnalysisIds : hist[j] = <<RUNNING, COMPLETED>>
    /\ \E j \in AnalysisIds : hist[j] = <<RUNNING, FAILED>> /\ j \in deleted

\* the run of job j is scheduled and has not begun
Scheduled(j) == \E task \in background : task.analysis_id = j

\* the run of job j has begun
Begun(j) == j = cur \/ j \in finished

\* C2 (as claimed): the record of a created job is first persisted with status
\* PENDING, and has moved from PENDING to RUNNING when its background run begins.
C2_PendingThenRunning ==
    \A j \in Created :
        /\ hist[j][1] = PENDING
        /\ Begun(j) => Len(hist[j]) >= 2 /\ hist[j][2] = RUNNING

\* C2 (amended): the record of a created job is persisted with status RUNNING
\* from the start, PENDING is never persisted, and a record that exists while
\* its background run is still scheduled is RUNNING.
C2_CreatedRunning ==
    \A j \in Created :
        /\ hist[j][1] = RUNNING
        /\ \A k \in 1..Len(hist[j]) : hist[j][k] # PENDING
        /\ Scheduled(j) /\ analyses[j].exists => analyses[j].status = RUNNING

C2_Witness ==
    /\ cur \in Created /\ pc = "construct"
    /\ analyses[cur].exists /\ hist[cur] = <<RUNNING>>

\* the number of entries of recs whose ticker is t, read case-insensitively
Occurrences(recs, t) == Cardinality({i \in 1..Len(recs) : Upper(recs[i].ticker) = t})

Requested(j) ==
    LET req == RequestedTickers(Split(analyses[j].ticker))
    IN  {req[i] : i \in 1..Len(req)}

\* C3: in the summary persisted for a COMPLETED job whose crew output was a
\* JSON object, the recommendation list holds each requested ticker exactly
\* once.  (For an output that is no JSON object the summary is the raw text
\* and holds no recommendation list at all.)
C3_EveryRequestedTickerOnce ==
    \A j \in AnalysisIds :
        analyses[j].exists /\ analyses[j].status = COMPLETED
        /\ analyses[j].summary.kind = "json" =>
            /\ analyses[j].summary.has_recs
            /\ \A t \in Requested(j) : Occurrences(analyses[j].summary.recs, t) = 1

\* a step in which an exception leaves the pipeline invocation of the running
\* job for good: crew construction raises and ends the run, or the handler of
\* run_analysis deals with the exception that crew.kickoff raised
EscapedException ==
    /\ cur # NoJob
    /\ \/ pc = "construct" /\ pc' = "idle"
       \/ pc = "except" /\ exc = KickoffError

\* C4: when crew construction or crew.kickoff raised in a job's run, the job's
\* record (if it still exists) is then FAILED with the exception's message as
\* summary, and the job has never been COMPLETED.
C4_EscapedExceptionFails ==
    [][EscapedException =>
          /\ analyses'[cur].exists =>
                /\ analyses'[cur].status = FAILED
                /\ analyses'[cur].summary.kind = "error"
                /\ analyses'[cur].summary.text = KickoffError
          /\ \A k \in 1..Len(hist'[cur]) : hist'[cur][k] # COMPLETED]_vars

\* C5: a job that exists when its background run has ended is COMPLETED or
\* FAILED (nothing changes a status after the run, so a job that is RUNNING
\* then is RUNNING forever).
C5_RunEndsTerminal ==
    \A j \in finished : analyses[j].exists => analyses[j].status \in Terminal

\* C6: after delete(id) has returned the logs query for id is empty, and no
\* stored log line belongs to an absent job record.
C6_NoLogsAfterDelete ==
    /\ \A j \in deleted : get_logs(j) = <<>>
    /\ \A e \in log_entries : analyses[e.analysis_id].exists

\* the jobs a WebSocket is listed under in the registry
ListedUnder(w) ==
    {j \in DOMAIN active_connections :
        \E i \in 1..Len(active_connections[j]) : active_connections[j][i] = w}

\* C7: the lines a subscriber receives arrive in the job's emission order
\* (the lines of a job grow in the order the pipeline writes them).
C7_ReceivedInEmissionOrder ==
    \A w \in WebSockets : StrictlyIncreasing(received[w])

\* C8: the logs query returns a job's persisted lines in the order the
\* pipeline emitted them (the lines of a job grow in that order).
C8_LogsInEmissionOrder ==
    \A j \in AnalysisIds : StrictlyIncreasing(get_logs(j))

\* two jobs have stored lines, the rows of one lying between or after the
\* rows of the other in the shared table
C8_Witness ==
    \E j, k \in AnalysisIds :
        /\ j # k
        /\ Len(get_logs(j)) >= 2
        /\ \E e, f \in log_entries : e.analysis_id = k /\ f.analysis_id = j /\ e.id < f.id

\* C9: a subscriber attached before its job's run ended and still attached
\* when every broadcast of the job has run has received exactly the lines the
\* logs query returns, in the same order (stated for a job that was not
\* deleted and whose lines were stored).
C9_LiveEqualsLogs ==
    \A w \in WebSockets :
        LET j == ws[w].analysis_id
        IN  /\ ws[w].state = "open" /\ ws[w].early
            /\ j \in finished /\ j \notin deleted
            /\ \A i \in 1..Len(tasks) : tasks[i].analysis_id # j
            /\ get_logs(j) # <<>>
            => received[w] = get_logs(j)

\* C10: a subscriber whose delivery failed, and which broadcast closed, is no
\* longer listed in the registry.
C10_FailedSubscriberRemoved ==
    \A w \in WebSockets : ws[w].state = "closed" => ListedUnder(w) = {}

\* the broadcast task at position i ends in this step
Ends(i) == i \in 1..Len(tasks) /\ tasks' = RemoveAt(tasks, i)

\* C11: a broadcast ends only when it has visited every subscriber in the list
\* of its job: a failed delivery to one subscriber (the close of the failed
\* connection raising included) leaves no later subscriber of the list
\* unvisited.
C11_FailedDeliverySparesTheOthers ==
    [][\A i \in 1..Len(tasks) :
          Ends(i) /\ Len(tasks') < Len(tasks) =>
              tasks[i].idx + 1 >= Len(Iterated(tasks[i]))]_vars

\* the number of times line m occurs in q
Count(q, m) == Cardinality({k \in 1..Len(q) : q[k] = m})

\* the broadcast task at position i ends in the ordinary way: its iteration is
\* over (no close has raised)
Exhausts(i) ==
    Ends(i) /\ Len(tasks') < Len(tasks) /\ tasks[i].idx >= Len(Iterated(tasks[i]))

\* C12: when a broadcast has run to its end, every subscriber that was listed
\* when the broadcast took its first turn and is still connected has received
\* the broadcast's line exactly once, whatever other connections did meanwhile.
C12_AttachedThroughoutReceivesOnce ==
    [][\A i \in 1..Len(tasks) :
          Exhausts(i) =>
              \A w \in tasks[i].audience :
                  ws[w].state = "open" => Count(received[w], tasks[i].message) = 1]_vars

\* C13: a subscriber that attached when its job's run had ended, that is after
\* run_analysis had issued the broadcast of every line of the job, receives
\* nothing over the live channel.
C13_NothingRetroactive ==
    \A w \in WebSockets :
        ws[w].state # "new" /\ ~ws[w].early => received[w] = <<>>

\* line m of job j is in the store
Stored(j, m) == \E e \in log_entries : e.analysis_id = j /\ e.message = m

\* run_analysis has issued the broadcast of line m of job j (no broadcast task
\* takes a turn before the run that created it has ended)
Published(j, m) ==
    \E i \in 1..Len(tasks) : tasks[i].analysis_id = j /\ tasks[i].message = m

\* C14: while a run is under way and its job's record is COMPLETED or FAILED,
\* every line the pipeline has written is stored and published already.
C14_LinesBeforeTerminalStatus ==
    cur # NoJob /\ analyses[cur].exists /\ analyses[cur].status \in Terminal =>
        \A k \in 1..Len(log_buffer) :
            log_buffer[k] # EmptyLine =>
                Stored(cur, log_buffer[k]) /\ Published(cur, log_buffer[k])

Store == <<analyses, log_entries>>

\* the writes of the scope the next step executes, applied to the store: the
\* completion scope, the failure scope and the log scope of the running job
ScopeWrites ==
    IF pc = "persist" /\ analyses[cur].exists
    THEN <<[analyses EXCEPT ![cur] = Completed(analyses[cur], result, tickers_str)],
           log_entries>>
    ELSE IF pc = "except" /\ analyses[cur].exists
    THEN <<[analyses EXCEPT ![cur] = Failed(analyses[cur], exc)], log_entries>>
    ELSE IF pc = "finally"
    THEN <<analyses, AddLines(log_entries, cur, log_buffer)>>
    ELSE Store

\* C16: every step leaves the store as it was or applies all the writes of one
\* scope: the completion, failure or log scope of the running job, the two
\* deletes of a delete request, or the insert of a create request.  The
\* completion scope that ends normally has committed and goes on to the finally
\* block; the one that raises leaves the store unchanged and hands its exception
\* to the handler.  A create request that returns an identifier has committed
\* the row.
C16_ScopesAreAllOrNothing ==
    [][/\ cur # NoJob => Store' \in {Store, ScopeWrites}
       /\ cur # NoJob /\ pc = "persist" =>
             \/ pc' = "finally" /\ Store' = ScopeWrites
             \/ pc' = "except" /\ exc' = StorageError /\ Store' = Store
       /\ cur = NoJob =>
             \/ Store' = Store /\ next_id' = next_id
             \/ /\ next_id' = next_id
                /\ \E j \in Created :
                      Store' = <<DeleteAnalysis(analyses, j), DeleteLogs(log_entries, j)>>
             \/ /\ next_id' = next_id + 1
                /\ analyses'[next_id'].exists
                /\ \A j \in AnalysisIds \ {next_id'} : analyses'[j] = analyses[j]
                /\ log_entries' = log_entries]_vars

\* a completion scope has been rolled back, and so has a log scope: the run that
\* failed to store its result has ended and none of its captured lines is stored
C16_Witness ==
    \E j \in finished :
        /\ analyses[j].exists /\ analyses[j].status = FAILED
        /\ analyses[j].summary.text = StorageError
        /\ \E i \in 1..Len(tasks) : tasks[i].analysis_id = j
        /\ get_logs(j) = <<>>

\* the completion scope of the running job has failed, and the handler of
\* run_analysis is (handling) or was (handled) given its exception
CompletionFailed(at) == cur # NoJob /\ pc = at /\ exc = StorageError

\* the record shows nothing of the completion scope
NoCompletionWrites(j) ==
    /\ analyses[j].status # COMPLETED
    /\ analyses[j].summary.kind \in {"null", "error"}
    /\ analyses[j].recommendation = NoRecommendation
    /\ \A k \in 1..Len(hist[j]) : hist[j][k] # COMPLETED

RecordedFailure(j, e) ==
    /\ analyses[j].status = FAILED
    /\ analyses[j].summary.kind = "error"
    /\ analyses[j].summary.text = e

\* C17: when the completion scope of a run has failed and the
\* handler is done, the job's record (if it still exists) is FAILED with the
\* error's message as summary, and shows nothing of the completion scope.
C17_StorageFailureFails ==
    /\ CompletionFailed("except") /\ analyses[cur].exists => NoCompletionWrites(cur)
    /\ CompletionFailed("finally") /\ analyses[cur].exists =>
          RecordedFailure(cur, StorageError) /\ NoCompletionWrites(cur)

\* C18: a delete request reports deleted=true exactly when the record existed
\* at the call: a report of true is given for a record that existed and is now
\* gone, a record that a returned delete has removed is reported true, and no
\* identifier is reported true twice (a later delete reports false).  Once a
\* delete of an identifier has returned, get job reports it not found.
C18_DeleteReportsExistence ==
    [][\A j \in AnalysisIds :
          /\ removed'[j] \in {removed[j], removed[j] + 1}
          /\ removed'[j] = removed[j] + 1 <=>
                cur = NoJob /\ analyses[j].exists /\ ~analyses'[j].exists
          /\ removed'[j] <= 1
          /\ j \in deleted' => ~get_analysis(j)'.exists]_vars

\* a delete has reported true for a job whose run has ended, and another
\* job's record is still there
C18_Witness ==
    \E j, k \in Created :
        /\ j \in deleted /\ removed[j] = 1 /\ j \in finished
        /\ ~get_analysis(j).exists
        /\ analyses[k].exists

\* what the three detectors of get_sell_signals yield for ticker t
Fundamental(t) == get_fundamental_peak_signal(market[t].statements, market[t].cashflow)
Technical(t) == get_technical_exhaustion_signal(market[t].history400)
Distribution(t) == get_distribution_exit_signal(market[t].history90)

SomeAvailable(t) ==
    Fundamental(t).available \/ Technical(t).available \/ Distribution(t).available

\* the keys of a sell-signal entry that come from each sub-signal
FundamentalKeys ==
    {"fundamental_signal", "inventory_growth_pct", "revenue_growth_pct",
     "receivables_growth_pct", "capex_growth_pct"}
TechnicalKeys ==
    {"technical_signal", "extension_pct", "current_rsi", "rsi_divergence", "overextended"}
DistributionKeys == {"distribution_signal", "distribution_days_count"}

AvailableKeys(t) ==
    (IF Fundamental(t).available THEN FundamentalKeys ELSE {})
    \cup (IF Technical(t).available THEN TechnicalKeys ELSE {})
    \cup (IF Distribution(t).available THEN DistributionKeys ELSE {})

\* the tickers the last tool call was given
Given == TickersList(Split(tool_output.tickers))

\* C19: get_sell_signals returns one entry, in order, for each given ticker
\* with at least one available sub-signal and none for the others; the entry
\* holds the keys of exactly the available sub-signals, and its sell_signal is
\* true exactly when the flag of an available sub-signal is true.
C19_SellEntryPerAvailableSignals ==
    tool_output.tool = "sell" =>
        LET out == tool_output.results
            kept == SelectSeq(Given, SomeAvailable)
        IN  /\ Len(out) = Len(kept)
            /\ \A i \in 1..Len(out) :
                  LET t == kept[i]
                  IN  /\ out[i].ticker = t
                      /\ DOMAIN out[i].flags \cup DOMAIN out[i].metrics = AvailableKeys(t)
                      /\ out[i].sell_signal <=>
                            \/ Fundamental(t).available /\ Fundamental(t).fundamental_signal
                            \/ Technical(t).available /\ Technical(t).technical_signal
                            \/ Distribution(t).available
                               /\ Distribution(t).distribution_signal

\* of two given tickers one is omitted, and the entry of the other holds the
\* keys of the distribution sub-signal alone, whose flag makes sell_signal true
C19_Witness ==
    /\ tool_output.tool = "sell"
    /\ Len(Given) = 2 /\ Len(tool_output.results) = 1
    /\ DOMAIN tool_output.results[1].flags = {"distribution_signal"}
    /\ tool_output.results[1].sell_signal

\* every metric of a map of metrics is null
AllNull(metrics) == \A k \in DOMAIN metrics : metrics[k].null

\* none of the flags of a map of flags is true
NoneTrue(flags) == \A k \in DOMAIN flags : ~flags[k]

\* C20: no detector result asserts a signal on metrics that are all null.  An
\* entry of capex_tool without a growth figure has strong_signal false, an
\* entry of pricing_tool without a price change has spike false, a fundamental
\* result whose four growth figures are null has fundamental_signal false, a
\* technical result without extension and RSI has technical_signal false, and
\* an entry of get_sell_signals whose metrics are all null has no true flag
\* and sell_signal false.
C20_NoSignalWithoutMetrics ==
    /\ \A t \in Tickers :
          /\ LET f == Fundamental(t)
             IN  /\ f.revenue_growth_pct.null /\ f.inventory_growth_pct.null
                 /\ f.receivables_growth_pct.null /\ f.capex_growth_pct.null
                 => ~f.fundamental_signal /\ ~f.capex_peak
          /\ LET x == Technical(t)
             IN  x.extension_pct.null /\ x.current_rsi.null
                 => ~x.technical_signal /\ ~x.overextended /\ ~x.rsi_divergence
    /\ \A i \in 1..Len(tool_output.results) :
          LET r == tool_output.results[i]
          IN  /\ tool_output.tool = "capex" => (r.capex_growth_pct.null => ~r.strong_signal)
              /\ tool_output.tool = "pricing" => (r.price_change_pct.null => ~r.spike)
              /\ tool_output.tool = "sell" =>
                    (AllNull(r.metrics) => NoneTrue(r.flags) /\ ~r.sell_signal)

\* get_sell_signals has returned an entry that holds the keys of the
\* fundamental and of the technical sub-signal with every metric null
C20_Witness ==
    /\ tool_output.tool = "sell"
    /\ \E i \in 1..Len(tool_output.results) :
          LET r == tool_output.results[i]
          IN  /\ AllNull(r.metrics)
              /\ {"fundamental_signal", "technical_signal"} \subseteq DOMAIN r.flags
              /\ "capex_growth_pct" \in DOMAIN r.metrics

\* the given tickers the provider reports at least two capex periods for
TwoPeriods(t) == market[t].cashflow.kind = "series" /\ Len(market[t].cashflow.capex) >= 2

StartPrice(i) ==
    LET closes == prices[i].closes
    IN  IF Len(closes) <= 30 THEN closes[1] ELSE closes[Len(closes) - 29]
EndPrice(i) == prices[i].closes[Len(prices[i].closes)]

\* instrument i has price data and a change of at least 5% from a start price
\* that is not zero (compared without dividing)
Spiking(i) ==
    /\ prices[i].kind = "data" /\ prices[i].closes # <<>>
    /\ StartPrice(i) # 0
    /\ IF StartPrice(i) > 0
       THEN (EndPrice(i) - StartPrice(i)) * 100 >= 5 * StartPrice(i)
       ELSE (EndPrice(i) - StartPrice(i)) * 100 <= 5 * StartPrice(i)

C23_SortedWithSignalAtFortyPercent ==
    tool_output.tool = "rotation" /\ ~tool_output.raised =>
        LET out == tool_output.results
            analysis == get_sector_rotation_analysis(download).results
        IN  /\ Len(out) = Len(analysis)
            /\ \A i \in 1..Len(out) :
                  /\ out[i].ticker = analysis[i].ticker
                  /\ out[i].relative_return = analysis[i].relative_return
                  /\ out[i].rotation_signal
                        <=> out[i].relative_return > 0 /\ out[i].up_on_down_days_ratio >= 40
            /\ \A i \in 1..Len(out) - 1 : out[i].relative_return >= out[i + 1].relative_return

\* rotation_tool has returned three entries in another order than that of the
\* sector map: one with a ratio of exactly 0.4 and a true flag, one with a
\* relative return of exactly 0 and a false flag, one with a ratio of 0.2
\* and a false flag
C23_Witness ==
    /\ tool_output.tool = "rotation" /\ ~tool_output.raised
    /\ Len(tool_output.results) = 3
    /\ tool_output.results[1].ticker # DEFAULT_SECTOR_ETFS[1]
    /\ \E i, j, k \in 1..3 :
          /\ tool_output.results[i].up_on_down_days_ratio = 40
          /\ tool_output.results[i].relative_return > 0
          /\ tool_output.results[i].rotation_signal
          /\ tool_output.results[j].relative_return = 0
          /\ tool_output.results[j].up_on_down_days_ratio >= 40
          /\ ~tool_output.results[j].rotation_signal
          /\ tool_output.results[k].relative_return > 0
          /\ tool_output.results[k].up_on_down_days_ratio = 20
          /\ ~tool_output.results[k].rotation_signal

\* the sessions of the 90 day history of ticker t
Sessions90(t) == market[t].history90.sessions

\* the distribution days of ticker t: the sessions among the 20 most recent
\* that close below the session before on a volume above that of the session
\* before and above the mean volume of the 60 most recent sessions
DistributionDays(t) ==
    LET h == Sessions90(t)
        total60 == SumVolume(SubSeq(h, Len(h) - 59, Len(h)))
    IN  {k \in 2..Len(h) :
            /\ k > Len(h) - 20
            /\ h[k].close < h[k - 1].close
            /\ h[k].volume > h[k - 1].volume
            /\ h[k].volume * 60 > total60}

\* C24: on a history of at least 60 sessions, the count the distribution
\* sub-signal reports is the number of distribution days among the 20 most
\* recent sessions, and distribution_signal is true exactly when the count is
\* at least 4.
C24_DistributionDaysCounted ==
    tool_output.tool = "sell" =>
        \A i \in 1..Len(tool_output.results) :
            LET r == tool_output.results[i]
            IN  "distribution_signal" \in DOMAIN r.flags /\ Len(Sessions90(r.ticker)) >= 60 =>
                    /\ r.metrics["distribution_days_count"]
                          = Num(Cardinality(DistributionDays(r.ticker)))
                    /\ r.flags["distribution_signal"]
                          <=> Cardinality(DistributionDays(r.ticker)) >= 4

\* get_sell_signals has returned, for two tickers with 61 sessions, a count of
\* 3 with a false flag, a fourth falling session lying 21 sessions back, and a
\* count of 4 with a true flag
C24_Witness ==
    /\ tool_output.tool = "sell"
    /\ Len(tool_output.results) = 2
    /\ \E i, j \in 1..2 :
          LET r == tool_output.results[i]
              q == tool_output.results[j]
          IN  /\ Sessions90(r.ticker) = Marked(61, Days({1, 3, 5, 21}, "distribution"))
              /\ r.metrics["distribution_days_count"] = Num(3)
              /\ ~r.flags["distribution_signal"]
              /\ "distribution_signal" \in DOMAIN q.flags
              /\ q.metrics["distribution_days_count"] = Num(4)
              /\ q.flags["distribution_signal"]

\* C25: a ticker with fewer than 60 sessions of history has no distribution
\* sub-signal: its sell-signal entry holds no distribution key, from which it
\* follows that distribution_signal is never true on fewer than 60 sessions.
C25_NoDistributionBelowSixtySessions ==
    tool_output.tool = "sell" =>
        \A i \in 1..Len(tool_output.results) :
            LET r == tool_output.results[i]
            IN  Len(Sessions90(r.ticker)) < 60 =>
                    /\ "distribution_signal" \notin DOMAIN r.flags
                    /\ "distribution_days_count" \notin DOMAIN r.metrics

\* the tickers of the entries of the last tool call
Returned == {tool_output.results[i].ticker : i \in 1..Len(tool_output.results)}

\* the sector funds for which the download holds a column without a missing close
Complete ==
    IF download.kind # "data" THEN {}
    ELSE {c \in download.columns \ {MARKET_TICKER} :
             \A k \in 1..Len(download.rows) : download.rows[k][c] # NaN}

\* C26: whatever the provider answers for one ticker or instrument, no tool
\* raises, and the list it returns holds the entries of the tickers that are
\* not affected: the given tickers with two capex periods for capex_tool, the
\* instruments with a spike for pricing_tool, the sector funds with a complete
\* series for rotation_tool, the given tickers with an available sub-signal
\* for sell_signal_tool.
C26_OneFailureOmitsOneTicker ==
    /\ ~tool_output.raised
    /\ tool_output.tool = "capex" => Returned = {t \in Tickers : TwoPeriods(t)} \cap
                                                {Given[i] : i \in 1..Len(Given)}
    /\ tool_output.tool = "pricing" => Returned = {i \in Instruments : Spiking(i)}
    /\ tool_output.tool = "rotation" => Complete \subseteq Returned
    /\ tool_output.tool = "sell" => Returned = {t \in Tickers : SomeAvailable(t)} \cap
                                               {Given[i] : i \in 1..Len(Given)}

\* C27: a record whose committed status is COMPLETED or FAILED is left as it
\* is by every step of every operation, delete excepted, which removes it.
C27_TerminalRecordIsFinal ==
    [][\A j \in AnalysisIds :
          analyses[j].exists /\ analyses[j].status \in Terminal =>
              \/ analyses'[j] = analyses[j]
              \/ ~analyses'[j].exists /\ removed'[j] = removed[j] + 1]_vars

\* the run of a job has ended with its record COMPLETED or FAILED and still
\* there, after which another job has run to a terminal status and a delete
\* has removed that one's record
C27_Witness ==
    \E j, k \in Created :
        /\ j < k
        /\ analyses[j].exists /\ analyses[j].status \in Terminal /\ j \in finished
        /\ k \in finished /\ hist[k] # <<>> /\ hist[k][Len(hist[k])] \in Terminal
        /\ ~analyses[k].exists /\ removed[k] = 1

\* C28: the recommendation string of a COMPLETED job, when it is not null,
\* lists in order the 'ticker: rating' pairs of the recommendation list held
\* by the job's persisted summary, so that every entry the string names,
\* neutral ones included, is in the summary.
C28_StringListsTheSummary ==
    \A j \in AnalysisIds :
        /\ analyses[j].exists /\ analyses[j].status = COMPLETED
        /\ analyses[j].recommendation # NoRecommendation
        => /\ analyses[j].summary.kind = "json"
           /\ analyses[j].summary.has_recs
           /\ analyses[j].recommendation = RecommendationString(analyses[j].summary.recs)

\* the entries the crew returned to the running job
ReturnedRecs == IF result.has_recs THEN result.recs ELSE <<>>

\* the requested tickers of the running job, stripped and in upper case, and
\* those among them that no returned entry names in either case
RequestedOfRun == RequestedTickers(Split(tickers_str))
Names(ticker, t) ==
    ticker = t \/ (ticker = "aaa" /\ t = "AAA") \/ (ticker = "bbb" /\ t = "BBB")
Unmatched ==
    SelectSeq(RequestedOfRun,
              LAMBDA t : \A i \in 1..Len(ReturnedRecs) : ~Names(ReturnedRecs[i].ticker, t))

\* the returned entries as they were, followed by one neutral entry per
\* unmatched requested ticker, in request order
Reconciled ==
    ReturnedRecs \o [i \in 1..Len(Unmatched) |->
                      [ticker |-> Unmatched[i], rating |-> "neutral",
                       reason |-> NeutralReason]]

\* C29: the completion scope of a run whose crew returned a JSON object leaves
\* a recommendation string that names, in order, the returned entries followed
\* by a neutral entry for each requested ticker that no returned entry names
\* (compared without regard to case), in request order; the list stored in the
\* summary under 'recommendations', when the object had that key, holds these
\* entries with ticker, rating and reason as returned.
C29_ReturnedEntriesKeptNeutralAppended ==
    [][cur # NoJob /\ pc = "persist" /\ result.kind = "object"
       /\ analyses[cur].exists /\ analyses'[cur].status = COMPLETED
       => /\ analyses'[cur].recommendation =
                IF Reconciled = <<>> THEN NoRecommendation
                ELSE [is_null |-> FALSE,
                      parts |-> [i \in 1..Len(Reconciled) |->
                                    <<Reconciled[i].ticker, Reconciled[i].rating>>]]
          /\ result.has_recs => analyses'[cur].summary.recs = Reconciled]_vars

\* a job has completed with the crew's entry for "aaa" kept as returned and a
\* neutral entry appended for BBB, the request having named AAA and BBB
C29_Witness ==
    \E j \in Created :
        /\ analyses[j].exists /\ analyses[j].status = COMPLETED
        /\ analyses[j].ticker = <<"AAA", "BBB">>
        /\ analyses[j].summary.recs =
              <<[ticker |-> "aaa", rating |-> "buy", reason |-> CrewReason],
                [ticker |-> "BBB", rating |-> "neutral", reason |-> NeutralReason]>>

\* the places of the registry that list connection w: a job and an index
Listings(w) ==
    {<<j, k>> \in (DOMAIN active_connections) \X (1..MaxConns) :
        k <= Len(active_connections[j]) /\ active_connections[j][k] = w}

\* C30: the registry maps no job identifier to an empty list; a connection is
\* listed at most once, and only under the job it was connected to; a
\* connection for which disconnect has run is listed nowhere.
C30_RegistryWellFormed ==
    /\ \A j \in DOMAIN active_connections : active_connections[j] # <<>>
    /\ \A w \in WebSockets :
          /\ Cardinality(Listings(w)) <= 1
          /\ \A p \in Listings(w) : ws[w].state # "new" /\ p[1] = ws[w].analysis_id
          /\ ws[w].state = "gone" => Listings(w) = {}

\* one connection of a job has been disconnected while another, to which a
\* broadcast has delivered a line, is still listed under the job
C30_Witness ==
    \E w, v \in WebSockets :
        /\ ws[w].state = "gone" /\ Listings(w) = {}
        /\ ws[v].state = "open" /\ Listings(v) = {<<ws[w].analysis_id, 1>>}
        /\ received[v] # <<>>

====
